---- MODULE Spec2Model ----
(***************************************************************************)
(* Relay service bangun0/test_base.                                        *)
(*                                                                         *)
(* One incoming request is processed at a time.  A request is handled by   *)
(* one of: the generic path relay (relay_controller.py), a simple agency   *)
(* or mall relay endpoint (agency_relay_controller.py,                     *)
(* mall_relay_controller.py), a typed client/service endpoint              *)
(* (today_pickup_*_controller.py over today_pickup_client), or the         *)
(* ShippingService example.  Every handler suspends exactly once, on the   *)
(* outbound HTTP call, so every handler is two actions: the part up to the *)
(* await, and the part from the upstream outcome to the local response.    *)
(*                                                                         *)
(* Python values: None is the string None below; a dict is a function; a   *)
(* list is a sequence; an f-string detail is the tuple of its parts.       *)
(***************************************************************************)
EXTENDS Integers, Sequences, FiniteSets, TLC

VARIABLES pc, req, calls, up, resp, result, svc

vars == <<pc, req, calls, up, resp, result, svc>>

-----------------------------------------------------------------------------
(* Bounds of the explored inputs *)

MaxInHeaders == 2
MaxRespHeaders == 2

-----------------------------------------------------------------------------
(* Python / HTTP basics *)

None == "<None>"

EmptyDict == [n \in {} |-> None]

SeqsUpTo(S, n) == UNION {[1..k -> S] : k \in 0..n}

\* str.lower() on the strings that occur
lower(s) ==
    CASE s = "Host" -> "host"
      [] s = "Connection" -> "connection"
      [] s = "Set-Cookie" -> "set-cookie"
      [] s = "Bearer" -> "bearer"
      [] s = "BEARER" -> "bearer"
      [] s = "True" -> "true"
      [] s = "False" -> "false"
      [] OTHER -> s

\* the value a dict built by "for k, v in items: d[k] = v" holds for key k:
\* the value of the last item with that key
RECURSIVE LastValue(_, _)
LastValue(items, k) ==
    IF items[Len(items)][1] = k THEN items[Len(items)][2]
    ELSE LastValue(SubSeq(items, 1, Len(items) - 1), k)

DictFromItems(items) ==
    [k \in {items[i][1] : i \in 1..Len(items)} |-> LastValue(items, k)]

DictItems(d) == {<<k, d[k]>> : k \in DOMAIN d}

-----------------------------------------------------------------------------
(* The upstream (remote API) as the handlers see it through httpx *)

JSON_BODY == "{\"ok\":1}"
PLAIN_BODY == "plain"
GZ_BODY == "<gzip of {\"ok\":1}>"

Statuses == {200, 204, 302, 401, 500}

WireBodies == {"", JSON_BODY, PLAIN_BODY, GZ_BODY}

RespHeaderPairs ==
    { <<"Set-Cookie", "a=1">>, <<"Set-Cookie", "b=2">>,
      <<"content-type", "application/json">>,
      <<"content-type", "text/plain">>,
      <<"content-encoding", "gzip">>,
      <<"Connection", "keep-alive">> }

\* how the upstream frames the body: a content-length header or chunked
Framing(kind, wire) ==
    IF kind = "length" THEN <<"content-length", ToString(Len(wire))>>
    ELSE <<"transfer-encoding", "chunked">>

\* the HTTP responses the upstream can send: header lines in wire order
UpstreamResponses ==
    { [kind |-> "response", status |-> s, headers |-> Append(hs, Framing(f, w)),
       wire |-> w] :
        s \in Statuses, hs \in SeqsUpTo(RespHeaderPairs, MaxRespHeaders),
        w \in WireBodies, f \in {"length", "chunked"} }

\* exceptions an outbound call can end with instead of a response
TimeoutException == "httpx.TimeoutException"
ConnectError == "httpx.ConnectError"
DecodingError == "httpx.DecodingError"
UnexpectedError == "RuntimeError"

Failure(e) == [kind |-> "raise", exc |-> e]

UpstreamOutcomes ==
    {r \in UpstreamResponses : r.status = 204 => r.wire = ""}
        \cup {Failure(TimeoutException), Failure(ConnectError), Failure(UnexpectedError)}

\* httpx exception hierarchy: TimeoutException < TransportError < RequestError
IsTimeoutException(e) == e = TimeoutException

\* variant: a failed connection is not counted among the request errors
IsRequestError_no_connect(e) == e \in {TimeoutException, DecodingError}

IsRequestError(e) == e \in {TimeoutException, ConnectError, DecodingError}

\* httpx.Headers.items(): names lower-cased, repeated names joined by ", "
RECURSIVE JoinValues(_, _, _)
JoinValues(hs, k, acc) ==
    IF hs = <<>> THEN acc
    ELSE IF lower(Head(hs)[1]) = k
         THEN JoinValues(Tail(hs), k,
                         IF acc = None THEN Head(hs)[2] ELSE acc \o ", " \o Head(hs)[2])
         ELSE JoinValues(Tail(hs), k, acc)

HeadersItems(hs) ==
    {<<k, JoinValues(hs, k, None)>> : k \in {lower(hs[i][1]) : i \in 1..Len(hs)}}

\* httpx.Headers.get(name)
HeadersGet(hs, name) ==
    IF \E i \in 1..Len(hs) : lower(hs[i][1]) = name THEN JoinValues(hs, name, None)
    ELSE None

\* httpx.Response.content: the body after content-encoding is undone;
\* "error" when the body is not in the announced encoding
Content(r) ==
    IF HeadersGet(r.headers, "content-encoding") = None THEN r.wire
    ELSE IF r.wire = GZ_BODY THEN JSON_BODY
    ELSE IF r.wire = "" THEN ""
    ELSE "error"

\* what "await client.request(...)" gives the handler: the response, or an
\* exception; a body that cannot be decoded raises DecodingError
Received(o) ==
    IF o.kind = "response" /\ Content(o) = "error" THEN Failure(DecodingError) ELSE o

-----------------------------------------------------------------------------
(* Local responses *)

NoResp == [kind |-> "none"]

\* starlette Response(content, status_code, headers, media_type): header names
\* lower-cased, content-length and content-type filled in when absent, a
\* charset appended to a text/ media type that has none
StarletteResponse(content, status_code, headers, media_type) ==
    LET raw == {<<lower(h[1]), h[2]>> : h \in headers}
        keys == {h[1] : h \in raw}
        withLen ==
            IF "content-length" \notin keys
               /\ ~(status_code < 200 \/ status_code \in {204, 304})
            THEN raw \cup {<<"content-length", ToString(Len(content))>>}
            ELSE raw
        withType ==
            IF media_type # None /\ "content-type" \notin keys
            THEN withLen \cup {<<"content-type",
                                 IF media_type = "text/plain"
                                 THEN media_type \o "; charset=utf-8" ELSE media_type>>}
            ELSE withLen
    IN  [kind |-> "response", status |-> status_code, headers |-> withType,
         body |-> content, detail |-> <<>>]

\* fastapi HTTPException(status_code, detail=f"{prefix}{e}")
HTTPException(status_code, prefix, e) ==
    [kind |-> "error", status |-> status_code, headers |-> {},
     body |-> None, detail |-> <<prefix, e>>]

\* an exception that leaves the handler uncaught: starlette's
\* ServerErrorMiddleware answers 500 with this plain text
ServerErrorResponse ==
    StarletteResponse("Internal Server Error", 500, {}, "text/plain")

-----------------------------------------------------------------------------
(* JSON values and outbound calls *)

JStr(s) == [t |-> "str", v |-> s]
JNull == [t |-> "null", v |-> ""]
JObj(f) == [t |-> "obj", v |-> f]
JList(q) == [t |-> "list", v |-> q]
\* no JSON at all: an absent request body, or no json= argument
JNone == [t |-> "none", v |-> ""]

\* one outbound httpx call: client.request / client.post / client.put / client.get
Call(method, url, headers, content, json, params) ==
    [method |-> method, url |-> url, headers |-> headers, content |-> content,
     json |-> json, params |-> params]

-----------------------------------------------------------------------------
(* Generic path relay: relay_controller.py *)

BASE_URL == "https://admin.todaypickup.com/v2/api-docs/"

HOP_BY_HOP_HEADERS ==
    {"connection", "keep-alive", "proxy-authenticate", "proxy-authorization",
     "te", "trailers", "transfer-encoding", "upgrade", "host"}

RelayMethods == {"GET", "POST", "PUT", "DELETE", "PATCH", "OPTIONS", "HEAD"}

\* explored inputs of the relay
MethodInputs == {"GET", "POST"}
PathInputs == {"some/path"}
\* method, query string and body of the requests explored together with
\* every sequence of header lines
RequestLineInputs ==
    { <<"GET", "", "">>, <<"POST", "param1=value1&param2=value2", "payload">> }

\* variant: the "?" is appended whether or not there is a query string
target_url_always_query(path, query) == BASE_URL \o path \o "?" \o query

target_url(path, query) ==
    IF query # "" THEN BASE_URL \o path \o "?" \o query ELSE BASE_URL \o path

\* lines 31-34: the inbound header lines minus the hop-by-hop ones, as a dict
forward_headers(hs) ==
    DictFromItems(SelectSeq(hs, LAMBDA h : lower(h[1]) \notin HOP_BY_HOP_HEADERS))

\* lines 52-56: the upstream header items copied into a dict
response_headers(rp) ==
    LET items == HeadersItems(rp.headers)
    IN  [k \in {i[1] : i \in items} |-> (CHOOSE i \in items : i[1] = k)[2]]

\* variant: the RequestError clause placed before the TimeoutException clause
relay_except_reordered(e) ==
    IF IsRequestError(e)
    THEN HTTPException(502, "Bad gateway: Error connecting to the upstream server. ", e)
    ELSE IF IsTimeoutException(e) THEN HTTPException(504, "Gateway timeout: ", e)
    ELSE HTTPException(500, "Internal server error: ", e)

\* lines 61-70: the except clauses, in source order
relay_except(e) ==
    IF IsTimeoutException(e) THEN HTTPException(504, "Gateway timeout: ", e)
    ELSE IF IsRequestError(e)
    THEN HTTPException(502, "Bad gateway: Error connecting to the upstream server. ", e)
    ELSE HTTPException(500, "Internal server error: ", e)

\* variant: the body is passed on even when it is empty
outbound_content_always(body) == body

\* line 46: "content=body if body else None"
outbound_content(body) == IF body # "" THEN body ELSE None

\* lines 24-48: from the incoming request to the outbound call.  Lines 24-37
\* are outside the try block: an exception there leaves the handler uncaught.
\* lineInputs: triples of method, query string and body.  rd is line 37,
\* "await request.body()": the body arrives, or the caller goes away while it
\* is read and starlette raises ClientDisconnect
RelayRequestOf(lineInputs, headerInputs) ==
    /\ pc = "idle"
    /\ \E line \in lineInputs, p \in PathInputs, hs \in headerInputs,
          rd \in {"ok", "ClientDisconnect"} :
        LET m == line[1]
            q == line[2]
            b == line[3]
        IN  /\ req' = [kind |-> "relay", method |-> m, path |-> p, query |-> q,
                       headers |-> hs, body |-> b, body_read |-> rd]
            /\ IF rd # "ok"
               THEN /\ resp' = ServerErrorResponse
                    /\ calls' = <<>>
                    /\ pc' = "done"
               ELSE /\ resp' = NoResp
                    /\ calls' = <<Call(m, target_url(p, q), forward_headers(hs),
                                        outbound_content(b), JNone, EmptyDict)>>
                    /\ pc' = "relay_wait"
    /\ UNCHANGED <<up, result, svc>>

RelayRequest ==
    RelayRequestOf(RequestLineInputs,
                   SeqsUpTo({ <<"host", "relay.local">>, <<"Connection", "keep-alive">>,
                              <<"x-client-header", "ClientValue">>,
                              <<"x-client-header", "Other">> }, MaxInHeaders))

\* variant: a failed outbound call is issued once more before it is reported
RelayComplete_retrying ==
    /\ pc = "relay_wait"
    /\ \E o \in UpstreamOutcomes :
        /\ up' = o
        /\ LET rp == Received(o)
           IN  IF rp.kind = "raise" /\ Len(calls) < 2
               THEN /\ calls' = Append(calls, calls[1])
                    /\ resp' = resp
                    /\ pc' = "relay_wait"
               ELSE /\ calls' = calls
                    /\ resp' = IF rp.kind = "response"
                               THEN StarletteResponse(Content(rp), rp.status,
                                                      DictItems(response_headers(rp)), None)
                               ELSE relay_except(rp.exc)
                    /\ pc' = "done"
    /\ UNCHANGED <<req, result, svc>>

\* lines 49-70: from the upstream outcome to the local response
RelayComplete ==
    /\ pc = "relay_wait"
    /\ \E o \in UpstreamOutcomes :
        /\ up' = o
        /\ LET rp == Received(o)
           IN  resp' = IF rp.kind = "response"
                       THEN StarletteResponse(Content(rp), rp.status,
                                              DictItems(response_headers(rp)), None)
                       ELSE relay_except(rp.exc)
    /\ pc' = "done"
    /\ UNCHANGED <<req, calls, result, svc>>

-----------------------------------------------------------------------------
(* pydantic models *)

\* A pydantic model class: its fields, the required ones, the defaults that
\* are not None, the fields holding a list of models (with the item model)
\* and the max_length constraints.  Extra keys are ignored (pydantic default).
Model(fields, required, defaults, lists, maxlen) ==
    [fields |-> fields, required |-> required, defaults |-> defaults,
     lists |-> lists, maxlen |-> maxlen]

\* the DTO classes of agency_relay_controller.py and mall_relay_controller.py:
\* every one of them is "class X(BaseModel): pass"
EmptyDTO == Model({}, {}, EmptyDict, EmptyDict, EmptyDict)

\* today_pickup_client/schemas.py
AuthAgencyDTO ==
    Model({"accessKey", "nonce", "timestamp"}, {}, EmptyDict, EmptyDict, EmptyDict)

DeliveryAgencyUpdateConsignDTO ==
    Model({"extOrderId", "invoiceNumber", "status"}, {}, EmptyDict, EmptyDict, EmptyDict)

GoodsReturnRequestDTO ==
    Model({"invoiceNumber"}, {"invoiceNumber"}, EmptyDict, EmptyDict, EmptyDict)

GoodsNoDawnDTO ==
    Model({"childrenMallId", "deliveryAddress", "deliveryAddressEng", "deliveryMessage",
           "deliveryName", "deliveryPhone", "deliveryPostal", "deliveryTel", "goodsName",
           "invoiceNumber", "invoicePrintYn", "mallName", "optionName", "orderNumber",
           "quantity", "reserveDt"},
          {"deliveryAddress", "deliveryName", "deliveryPhone", "mallName"},
          [f \in {"invoicePrintYn"} |-> JStr("N")],
          EmptyDict,
          [f \in {"invoiceNumber"} |-> 12])

MallApiDeliveryDTO ==
    Model({"dawnDelivery", "goodsList"}, {"goodsList"}, EmptyDict,
          [f \in {"goodsList"} |-> GoodsNoDawnDTO], EmptyDict)

GoodsDTO ==
    Model(GoodsNoDawnDTO.fields \cup {"dawnDelivery"}, GoodsNoDawnDTO.required,
          GoodsNoDawnDTO.defaults, EmptyDict, GoodsNoDawnDTO.maxlen)

MallApiReturnDTO ==
    Model({"goodsList"}, {"goodsList"}, EmptyDict,
          [f \in {"goodsList"} |-> GoodsNoDawnDTO], EmptyDict)

\* pydantic validation of a parsed JSON body against a model
RECURSIVE Validates(_, _)
Validates(model, j) ==
    /\ j.t = "obj"
    /\ \A f \in model.required : f \in DOMAIN j.v /\ j.v[f].t # "null"
    /\ \A f \in model.fields \cap DOMAIN j.v :
        IF f \in DOMAIN model.lists
        THEN /\ j.v[f].t = "list"
             /\ \A i \in 1..Len(j.v[f].v) : Validates(model.lists[f], j.v[f].v[i])
        ELSE /\ j.v[f].t \in {"str", "null"}
             /\ (j.v[f].t = "str" /\ f \in DOMAIN model.maxlen)
                    => Len(j.v[f].v) <= model.maxlen[f]

\* the value a validated model instance holds for a field
FieldValue(model, j, f) ==
    IF f \in DOMAIN j.v THEN j.v[f]
    ELSE IF f \in DOMAIN model.defaults THEN model.defaults[f]
    ELSE JNull

\* BaseModel.model_dump(...): every model field with its value or default;
\* exclude_none drops the fields whose value is None, at every level
RECURSIVE model_dump(_, _, _)
model_dump(model, j, exclude_none) ==
    LET kept == {f \in model.fields :
                    exclude_none => FieldValue(model, j, f).t # "null"}
    IN  JObj([f \in kept |->
                 LET x == FieldValue(model, j, f)
                 IN  IF f \in DOMAIN model.lists /\ x.t = "list"
                     THEN JList([i \in 1..Len(x.v) |->
                                    model_dump(model.lists[f], x.v[i], exclude_none)])
                     ELSE x])

\* explored request bodies
Goods1 == JObj([f \in {"deliveryAddress", "deliveryName", "deliveryPhone", "mallName"} |->
                    JStr("x")])

JsonInputs ==
    { JNone,
      JObj(EmptyDict),
      JObj([f \in {"invoiceNumber"} |-> JStr("INV001")]),
      JObj([f \in {"accessKey", "nonce"} |-> IF f = "nonce" THEN JNull ELSE JStr("key")]),
      JObj([f \in {"invoiceNumber", "memo"} |-> JStr("INV001")]),
      JObj([f \in {"goodsList"} |-> JList(<<Goods1>>)]) }

\* fastapi RequestValidationError: answered with 422
RequestValidationError(loc) == HTTPException(422, "validation error: ", loc)

-----------------------------------------------------------------------------
(* Simple relay controllers: agency_relay_controller.py, mall_relay_controller.py *)

EXTERNAL_API_BASE_URL == "https://admin.todaypickup.com"

\* One row per endpoint: outbound method and path, whether the local path
\* carries a parameter that is appended to the outbound path, what is sent as
\* json= ("empty": json={}, "dto": the model_dump of the body model, "raw":
\* request.json(), "none": nothing), and the Accept header (None: not sent).
Endpoint(group, name, method, path, param, body, accept) ==
    [group |-> group, name |-> name, method |-> method, path |-> path,
     param |-> param, body |-> body, accept |-> accept]

AgencyRelayEndpoints ==
    { Endpoint("agency", "check_auth", "POST", "/api/agency/auth", FALSE, "empty", "application/json"),
      Endpoint("agency", "auth_token", "POST", "/api/agency/auth/token", FALSE, "dto", "application/json"),
      Endpoint("agency", "update_delivery_ext_order_id", "PUT", "/api/agency/delivery", FALSE, "dto", "application/json"),
      Endpoint("agency", "return_delivery_flex", "PUT", "/api/agency/delivery/flex", FALSE, "dto", "application/json"),
      Endpoint("agency", "return_delivery_list_flex", "PUT", "/api/agency/delivery/list/flex", FALSE, "dto", "application/json"),
      Endpoint("agency", "find_delivery_list", "POST", "/api/agency/delivery/list/", TRUE, "empty", "application/json"),
      Endpoint("agency", "update_delivery_state", "PUT", "/api/agency/delivery/state", FALSE, "dto", "application/json"),
      Endpoint("agency", "find_delivery", "POST", "/api/agency/delivery/", TRUE, "empty", "*/*"),
      Endpoint("agency", "post_number_save", "POST", "/api/agency/postal/save", FALSE, "dto", "application/json") }

MallRelayEndpoints ==
    { Endpoint("mall", "cancel_delivery", "POST", "/api/mall/cancelDelivery", FALSE, "raw", None),
      Endpoint("mall", "find_by_invoice", "GET", "/api/mall/delivery/", TRUE, "none", "application/json"),
      Endpoint("mall", "find_by_invoice_list", "GET", "/api/mall/deliveryList/", TRUE, "none", "application/json"),
      Endpoint("mall", "delivery_list_register", "POST", "/api/mall/deliveryListRegister", FALSE, "dto", None),
      Endpoint("mall", "delivery_register", "POST", "/api/mall/deliveryRegister", FALSE, "dto", None),
      Endpoint("mall", "possible_delivery", "GET", "/api/mall/possibleDelivery", FALSE, "none", "application/json"),
      Endpoint("mall", "return_delivery", "POST", "/api/mall/returnDelivery", FALSE, "dto", None),
      Endpoint("mall", "return_list_register", "POST", "/api/mall/returnListRegister", FALSE, "dto", None),
      Endpoint("mall", "return_register", "POST", "/api/mall/returnRegister", FALSE, "dto", None) }

\* explored credentials and parameters
AgencyIdInputs == {None, "agency001"}
PathParamInputs == {"INV001"}

\* the incoming requests FastAPI can route to an endpoint: a body only where
\* the endpoint reads one, a path parameter only where the path has one, an
\* agencyId header only in the agency group
SimpleRequests ==
    { [kind |-> "simple", ep |-> ep, authorization |-> a, agencyId |-> g,
       param |-> p, query |-> q, json |-> j] :
        ep \in AgencyRelayEndpoints \cup MallRelayEndpoints,
        a \in {None, "fake_token"}, g \in AgencyIdInputs, p \in PathParamInputs \cup {""},
        q \in { EmptyDict,
                [k \in {"address"} |-> "Seoul"],
                [k \in {"address", "postalCode", "dawnDelivery"} |->
                    IF k = "address" THEN "Seoul"
                    ELSE IF k = "postalCode" THEN "04524" ELSE ""] },
        j \in JsonInputs }

RoutedSimple(r) ==
    /\ (r.ep.group = "mall") => r.agencyId = None
    /\ r.param = "" <=> ~r.ep.param
    /\ (r.ep.name # "possible_delivery") => r.query = EmptyDict
    /\ (r.ep.body \in {"none", "empty"}) => r.json = JNone

\* the outbound headers dict of an endpoint
simple_headers(r) ==
    LET names == {"Authorization"}
                    \cup (IF r.ep.group = "agency" THEN {"agencyId"} ELSE {})
                    \cup (IF r.ep.group = "agency" \/ r.ep.body \in {"dto", "raw"}
                          THEN {"Content-Type"} ELSE {})
                    \cup (IF r.ep.accept # None THEN {"Accept"} ELSE {})
    IN  [n \in names |->
            CASE n = "Authorization" -> r.authorization
              [] n = "agencyId" -> r.agencyId
              [] n = "Content-Type" -> "application/json"
              [] n = "Accept" -> r.ep.accept]

\* possible_delivery: the params dict
simple_params(r) ==
    [k \in {k \in DOMAIN r.query : k = "address" \/ r.query[k] # ""} |-> r.query[k]]

\* what FastAPI rejects before the handler runs: a missing Header(...) or
\* Query(...), or a body that fails the body model
simple_validation_error(r) ==
    \/ r.authorization = None
    \/ r.ep.group = "agency" /\ r.agencyId = None
    \/ r.ep.name = "possible_delivery" /\ "address" \notin DOMAIN r.query
    \/ r.ep.body = "dto" /\ ~Validates(EmptyDTO, r.json)

\* the json= argument of the outbound call
simple_json(r) ==
    CASE r.ep.body = "empty" -> JObj(EmptyDict)
      [] r.ep.body = "dto" -> model_dump(EmptyDTO, r.json, FALSE)
      [] r.ep.body = "raw" -> r.json
      [] OTHER -> JNone

\* variant: a timeout is answered 504, as the generic relay does
simple_except_timeout_504(e) ==
    IF IsTimeoutException(e) THEN HTTPException(504, "Gateway timeout: ", e)
    ELSE IF IsRequestError(e)
    THEN HTTPException(500, "Error connecting to external API: ", e)
    ELSE HTTPException(500, "An unexpected error occurred: ", e)

\* the except clauses of every simple endpoint
simple_except(e) ==
    IF IsRequestError(e) THEN HTTPException(500, "Error connecting to external API: ", e)
    ELSE HTTPException(500, "An unexpected error occurred: ", e)

\* an endpoint up to its outbound call
SimpleRequest ==
    /\ pc = "idle"
    /\ \E r \in SimpleRequests :
        /\ RoutedSimple(r)
        /\ req' = r
        /\ IF simple_validation_error(r)
           THEN /\ resp' = RequestValidationError("request")
                /\ calls' = <<>>
                /\ pc' = "done"
           ELSE IF r.ep.body = "raw" /\ r.json = JNone
           THEN \* cancel_delivery: request.json() raises inside the try
                /\ resp' = simple_except("JSONDecodeError")
                /\ calls' = <<>>
                /\ pc' = "done"
           ELSE /\ resp' = NoResp
                /\ calls' = <<Call(r.ep.method,
                                   EXTERNAL_API_BASE_URL \o r.ep.path \o r.param,
                                   simple_headers(r), None, simple_json(r),
                                   IF r.ep.name = "possible_delivery"
                                   THEN simple_params(r) ELSE EmptyDict)>>
                /\ pc' = "simple_wait"
    /\ UNCHANGED <<up, result, svc>>

\* an endpoint from the upstream outcome to the local response
SimpleComplete ==
    /\ pc = "simple_wait"
    /\ \E o \in UpstreamOutcomes :
        /\ up' = o
        /\ LET rp == Received(o)
           IN  resp' = IF rp.kind = "response"
                       THEN StarletteResponse(Content(rp), rp.status, {},
                                              HeadersGet(rp.headers, "content-type"))
                       ELSE simple_except(rp.exc)
    /\ pc' = "done"
    /\ UNCHANGED <<req, calls, result, svc>>

-----------------------------------------------------------------------------
(* Typed client: today_pickup_client/client.py, services.py *)

TODAY_PICKUP_BASE_URL == "https://admin.todaypickup.com/api"

\* the parsed value of the one JSON document the upstream sends
ParsedJson == JObj([k \in {"ok"} |-> 1])

\* A client instance together with the service that wraps it (services.py
\* forwards every method and close() one to one).  requests counts the
\* _request calls, closed the close() calls, after_close the _request calls
\* issued when close() had already been called.
TodayPickupClientBase(auth_token, agency_id) ==
    [constructed |-> TRUE, auth_token |-> auth_token, agency_id |-> agency_id,
     requests |-> 0, closed |-> 0, after_close |-> 0]

\* client.py: the two concrete clients
AgencyApiClient(auth_token, agency_id) == TodayPickupClientBase(auth_token, agency_id)

\* variant: the mall client hands its token to the base class as tenant id too
MallApiClient_with_agency(auth_token) == TodayPickupClientBase(auth_token, auth_token)

MallApiClient(auth_token) == TodayPickupClientBase(auth_token, None)

TodayPickupAgencyService(auth_token, agency_id) ==
    TodayPickupClientBase(auth_token, agency_id)

TodayPickupMallService(auth_token) == TodayPickupClientBase(auth_token, None)

\* Python truthiness of an Optional[str]
Truthy(x) == x # None /\ x # ""

\* variant: the injected headers are written after the explicit ones
request_headers_injected_last(c, headers) ==
    LET injected == (IF Truthy(c.auth_token) THEN {"Authorization"} ELSE {})
                        \cup (IF Truthy(c.agency_id) THEN {"agencyId"} ELSE {})
    IN  [n \in injected \cup DOMAIN headers |->
            IF n \in injected
            THEN (IF n = "Authorization" THEN c.auth_token ELSE c.agency_id)
            ELSE headers[n]]

\* _request, lines 73-80: the injected headers, then the explicit ones on top
request_headers(c, headers) ==
    LET injected == (IF Truthy(c.auth_token) THEN {"Authorization"} ELSE {})
                        \cup (IF Truthy(c.agency_id) THEN {"agencyId"} ELSE {})
    IN  [n \in injected \cup DOMAIN headers |->
            IF n \in DOMAIN headers THEN headers[n]
            ELSE IF n = "Authorization" THEN c.auth_token ELSE c.agency_id]

\* _request, line 89: the outbound call
request_call(c, method, endpoint, headers, json, params) ==
    Call(method, TODAY_PICKUP_BASE_URL \o endpoint, request_headers(c, headers),
         None, json, params)

\* the instance after one more _request has been issued on it
request_issued(c) ==
    [c EXCEPT !.requests = @ + 1,
              !.after_close = @ + (IF c.closed > 0 THEN 1 ELSE 0)]

\* close(), lines 109-116
close(c) == [c EXCEPT !.closed = @ + 1]

\* variant: only server errors are raised
raise_for_status_5xx(status) == status >= 500

\* httpx Response.raise_for_status(): raises unless the status is 2xx
raise_for_status(status) == ~(200 <= status /\ status <= 299)

Returned(value) == [kind |-> "return", exc |-> None, status |-> 0, value |-> value]
Raised(exc, status) == [kind |-> "raise", exc |-> exc, status |-> status, value |-> JNone]

\* _request, lines 89-107: what the call gives its caller for an outcome
request_result(rp) ==
    IF rp.kind = "raise" THEN Raised(rp.exc, 0)
    ELSE IF raise_for_status(rp.status) THEN Raised("httpx.HTTPStatusError", rp.status)
    ELSE IF rp.status = 204 THEN Returned(JNull)
    ELSE IF Content(rp) = JSON_BODY THEN Returned(ParsedJson)
    ELSE Raised("JSONDecodeError", 0)

\* the client methods that the controllers and ShippingService reach:
\* method, endpoint, whether an argument is appended to the endpoint, and
\* the model whose model_dump(exclude_none=True) is sent (EmptyDTO row: no json)
ClientOp(name, method, endpoint, param, hasBody, model) ==
    [name |-> name, method |-> method, endpoint |-> endpoint, param |-> param,
     hasBody |-> hasBody, model |-> model]

check_auth == ClientOp("check_auth", "POST", "/agency/auth", FALSE, FALSE, EmptyDTO)
get_auth_token ==
    ClientOp("get_auth_token", "POST", "/agency/auth/token", FALSE, TRUE, AuthAgencyDTO)
update_delivery_ext_order_id ==
    ClientOp("update_delivery_ext_order_id", "PUT", "/agency/delivery", FALSE, TRUE,
             DeliveryAgencyUpdateConsignDTO)
cancel_delivery ==
    ClientOp("cancel_delivery", "POST", "/mall/cancelDelivery", FALSE, TRUE,
             GoodsReturnRequestDTO)
get_delivery_by_invoice ==
    ClientOp("get_delivery_by_invoice", "GET", "/mall/delivery/", TRUE, FALSE, EmptyDTO)
delivery_list_register ==
    ClientOp("delivery_list_register", "POST", "/mall/deliveryListRegister", FALSE, TRUE,
             MallApiDeliveryDTO)

\* the other methods of MallApiClient
find_by_invoice_list ==
    ClientOp("find_by_invoice_list", "GET", "/mall/deliveryList/", TRUE, FALSE, EmptyDTO)
delivery_register ==
    ClientOp("delivery_register", "POST", "/mall/deliveryRegister", FALSE, TRUE, GoodsDTO)
return_delivery ==
    ClientOp("return_delivery", "POST", "/mall/returnDelivery", FALSE, TRUE,
             GoodsReturnRequestDTO)
return_list_register ==
    ClientOp("return_list_register", "POST", "/mall/returnListRegister", FALSE, TRUE,
             MallApiReturnDTO)
return_register ==
    ClientOp("return_register", "POST", "/mall/returnRegister", FALSE, TRUE, GoodsDTO)

\* MallApiClient.possible_delivery: lines 402-405, the params dict and the call
possible_delivery_call(c, address, postal_code, dawn_delivery) ==
    request_call(c, "GET", "/mall/possibleDelivery", EmptyDict, JNone,
                 [k \in {"address", "postalCode"}
                         \cup (IF dawn_delivery # None THEN {"dawnDelivery"} ELSE {}) |->
                     CASE k = "address" -> address
                       [] k = "postalCode" -> postal_code
                       [] OTHER -> lower(dawn_delivery)])

possible_delivery ==
    ClientOp("possible_delivery", "GET", "/mall/possibleDelivery", FALSE, FALSE, EmptyDTO)

\* a client method: its one _request call
client_call(c, op, param, json) ==
    request_call(c, op.method, op.endpoint \o param, EmptyDict,
                 IF op.hasBody THEN model_dump(op.model, json, TRUE) ELSE JNone,
                 EmptyDict)

-----------------------------------------------------------------------------
(* Typed controllers: dependencies.py, today_pickup_agency_controller.py,
   today_pickup_mall_controller.py *)

\* str.split() on the header values that occur
split(s) ==
    CASE s = "Bearer fake_mall_token" -> <<"Bearer", "fake_mall_token">>
      [] s = "Bearer other_mall_token" -> <<"Bearer", "other_mall_token">>
      [] s = "Basic abc" -> <<"Basic", "abc">>
      [] s = "Bearer a b" -> <<"Bearer", "a", "b">>
      [] s = "" -> <<>>
      [] OTHER -> <<s>>

Ok(value) == [ok |-> TRUE, value |-> value, error |-> NoResp]
Err(error) == [ok |-> FALSE, value |-> None, error |-> error]

\* variant: two parts are enough, whatever the scheme
get_mall_auth_token_any_scheme(authorization) ==
    IF ~Truthy(authorization)
    THEN Err(HTTPException(401, "Authorization header is missing", ""))
    ELSE LET parts == split(authorization)
         IN  IF Len(parts) # 2
             THEN Err(HTTPException(401, "Invalid Authorization header format. Expected 'Bearer <token>'", ""))
             ELSE Ok(parts[2])

\* dependencies.py lines 13-43
get_mall_auth_token(authorization) ==
    IF ~Truthy(authorization)
    THEN Err(HTTPException(401, "Authorization header is missing", ""))
    ELSE LET parts == split(authorization)
         IN  IF Len(parts) # 2 \/ lower(parts[1]) # "bearer"
             THEN Err(HTTPException(401, "Invalid Authorization header format. Expected 'Bearer <token>'", ""))
             ELSE Ok(parts[2])

get_agency_auth_token(authorization) ==
    IF ~Truthy(authorization)
    THEN Err(HTTPException(401, "Authorization header is missing", ""))
    ELSE Ok(authorization)

get_agency_id(agencyId) ==
    IF ~Truthy(agencyId)
    THEN Err(HTTPException(400, "agencyId header is missing", ""))
    ELSE Ok(agencyId)

\* get_agency_service: its two dependencies in declaration order, then the
\* service; the result is the service or the first dependency's error
get_agency_service(authorization, agencyId) ==
    LET auth_token == get_agency_auth_token(authorization)
        agency_id == get_agency_id(agencyId)
    IN  IF ~auth_token.ok THEN auth_token
        ELSE IF ~agency_id.ok THEN agency_id
        ELSE Ok(TodayPickupAgencyService(auth_token.value, agency_id.value))

\* variant: the dependency closes the service before handing it to the route
get_mall_service_closing(authorization) ==
    LET auth_token == get_mall_auth_token(authorization)
    IN  IF ~auth_token.ok THEN auth_token
        ELSE Ok(close(TodayPickupMallService(auth_token.value)))


get_mall_service(authorization) ==
    LET auth_token == get_mall_auth_token(authorization)
    IN  IF ~auth_token.ok THEN auth_token
        ELSE Ok(TodayPickupMallService(auth_token.value))

\* the routes: the service method each handler calls
TypedEndpoint(group, name, op) == [group |-> group, name |-> name, op |-> op]

TypedEndpoints ==
    { TypedEndpoint("agency", "check_agency_auth", check_auth),
      TypedEndpoint("agency", "get_agency_auth_token_api", get_auth_token),
      TypedEndpoint("agency", "update_delivery_consign", update_delivery_ext_order_id),
      TypedEndpoint("mall", "cancel_delivery", cancel_delivery),
      TypedEndpoint("mall", "get_delivery_by_invoice", get_delivery_by_invoice),
      TypedEndpoint("mall", "delivery_list_register", delivery_list_register) }


TypedRequests ==
    { [kind |-> "typed", ep |-> ep, authorization |-> a, agencyId |-> g,
       param |-> p, json |-> j] :
        ep \in TypedEndpoints,
        a \in {None, "fake_token", "Bearer fake_mall_token", "Basic abc", "Bearer a b"},
        g \in AgencyIdInputs,
        p \in PathParamInputs \cup {""}, j \in JsonInputs }

RoutedTyped(r) ==
    /\ (r.ep.group = "mall") => r.agencyId = None
    /\ r.param = "" <=> ~r.ep.op.param
    /\ ~r.ep.op.hasBody => r.json = JNone

\* variant: a status error of the client is answered with the upstream status
typed_except_passing_status(res) ==
    HTTPException(IF res.exc = "httpx.HTTPStatusError" THEN res.status ELSE 500,
                  "An unexpected error occurred: ", res.exc)

\* the handlers' except clauses: an HTTPException passes, anything else is 500
typed_except(res) == HTTPException(500, "An unexpected error occurred: ", res.exc)

\* FastAPI's answer for a returned value
JSONResponse(value) ==
    [kind |-> "response", status |-> 200, headers |-> {}, body |-> value, detail |-> <<>>]

\* variant: no "except HTTPException: raise" clause, so the 404 raised inside
\* the try block is caught by "except Exception"
typed_handler_catching_404(ep, res) ==
    IF res.kind = "raise" THEN typed_except(res)
    ELSE IF ep.name = "get_delivery_by_invoice" /\ res.value = JNull
    THEN HTTPException(500, "An unexpected error occurred: ", "404: Delivery not found")
    ELSE JSONResponse(res.value)

\* the body of a handler after the awaited service call
typed_handler(ep, res) ==
    IF res.kind = "raise" THEN typed_except(res)
    ELSE IF ep.name = "get_delivery_by_invoice" /\ res.value = JNull
    THEN HTTPException(404, "Delivery not found", "")
    ELSE JSONResponse(res.value)

\* FastAPI resolves the Depends(...) of the route first (the service is
\* constructed there), then validates the body, then calls the handler, which
\* runs up to its awaited service call
TypedRequest ==
    /\ pc = "idle"
    /\ \E r \in TypedRequests :
        /\ RoutedTyped(r)
        /\ req' = r
        /\ LET service == IF r.ep.group = "agency"
                          THEN get_agency_service(r.authorization, r.agencyId)
                          ELSE get_mall_service(r.authorization)
           IN  IF ~service.ok
               THEN /\ resp' = service.error
                    /\ svc' = svc
                    /\ calls' = <<>>
                    /\ pc' = "done"
               ELSE IF r.ep.op.hasBody /\ ~Validates(r.ep.op.model, r.json)
               THEN /\ resp' = RequestValidationError("body")
                    /\ svc' = service.value
                    /\ calls' = <<>>
                    /\ pc' = "done"
               ELSE /\ resp' = NoResp
                    /\ svc' = request_issued(service.value)
                    /\ calls' = <<client_call(service.value, r.ep.op, r.param, r.json)>>
                    /\ pc' = "typed_wait"
    /\ UNCHANGED <<up, result>>

\* the handler from the upstream outcome on: try / except / finally
TypedComplete ==
    /\ pc = "typed_wait"
    /\ \E o \in UpstreamOutcomes :
        /\ up' = o
        /\ result' = request_result(Received(o))
        /\ resp' = typed_handler(req.ep, request_result(Received(o)))
    /\ svc' = close(svc)
    /\ pc' = "done"
    /\ UNCHANGED <<req, calls>>

-----------------------------------------------------------------------------
(* services/shipping_service.py *)

ShippingRequests ==
    { [kind |-> "shipping", name |-> "get_shipment_status", op |-> get_delivery_by_invoice,
       token |-> "fake_mall_token", agency_id |-> None, param |-> p] :
            p \in PathParamInputs }
    \cup
    { [kind |-> "shipping", name |-> "check_agency_auth_status", op |-> check_auth,
       token |-> "fake_token", agency_id |-> g, param |-> ""] :
            g \in AgencyIdInputs \ {None} }

\* variant: only errors of the request itself are caught; a status error
\* leaves the method
shipping_return_status_uncaught(r, res) ==
    IF res.kind = "raise" /\ res.exc = "httpx.HTTPStatusError"
    THEN [kind |-> "raise", status |-> 0, headers |-> {}, body |-> None,
          detail |-> <<res.exc>>]
    ELSE IF res.kind = "raise"
    THEN [kind |-> "return", status |-> 0, headers |-> {},
          body |-> JObj([k \in {"error", "details"} |-> res.exc]), detail |-> <<>>]
    ELSE [kind |-> "return", status |-> 0, headers |-> {}, body |-> res.value,
          detail |-> <<>>]

\* the value a ShippingService method returns to its caller
shipping_return(r, res) ==
    IF res.kind = "raise"
    THEN [kind |-> "return", status |-> 0, headers |-> {},
          body |-> JObj([k \in {"error", "details"} |->
                            IF k = "error" THEN res.exc
                            ELSE IF r.name = "get_shipment_status"
                                 THEN "Failed to retrieve shipment status."
                                 ELSE "Failed to check agency authentication status."]),
          detail |-> <<>>]
    ELSE [kind |-> "return", status |-> 0, headers |-> {}, body |-> res.value,
          detail |-> <<>>]

\* get_shipment_status / check_agency_auth_status up to the awaited call
ShippingRequest ==
    /\ pc = "idle"
    /\ \E r \in ShippingRequests :
        /\ req' = r
        /\ LET service == IF r.name = "get_shipment_status"
                          THEN TodayPickupMallService(r.token)
                          ELSE TodayPickupAgencyService(r.token, r.agency_id)
           IN  /\ svc' = request_issued(service)
               /\ calls' = <<client_call(service, r.op, r.param, JNone)>>
    /\ pc' = "shipping_wait"
    /\ UNCHANGED <<up, resp, result>>

\* ... and from the outcome on: return or except, then finally
ShippingComplete ==
    /\ pc = "shipping_wait"
    /\ \E o \in UpstreamOutcomes :
        /\ up' = o
        /\ result' = request_result(Received(o))
        /\ resp' = shipping_return(req, request_result(Received(o)))
    /\ svc' = close(svc)
    /\ pc' = "done"
    /\ UNCHANGED <<req, calls>>

-----------------------------------------------------------------------------
(* The path proxy: controllers/todaypickup_controller.py over
   services/todaypickup_service.py *)

PROXY_BASE_URL == "https://admin.todaypickup.com"

\* TodayPickupService.request, lines 20-28: the one outbound call
proxy_call(method, path, params, data) ==
    Call(method, PROXY_BASE_URL \o path, EmptyDict, None, data, params)

\* proxy_get / proxy_post up to the awaited service.request; both declare one
\* optional dict parameter, which FastAPI reads from the JSON body
ProxyRequest ==
    /\ pc = "idle"
    /\ \E m \in MethodInputs, p \in PathInputs,
          j \in {JNone, JObj([f \in {"invoiceNumber"} |-> JStr("INV001")])} :
        /\ req' = [kind |-> "proxy", method |-> m, path |-> p, json |-> j]
        /\ calls' = <<IF m = "GET"
                      THEN proxy_call("GET", "/" \o p,
                                      IF j = JNone THEN EmptyDict
                                      ELSE [k \in DOMAIN j.v |-> j.v[k].v], JNone)
                      ELSE proxy_call("POST", "/" \o p, EmptyDict, j)>>
    /\ pc' = "proxy_wait"
    /\ UNCHANGED <<up, resp, result, svc>>

\* ... and from the upstream outcome on.  Neither the controller nor the
\* service has a try block: an exception of the call, or of response.json(),
\* leaves the handler uncaught.
ProxyComplete ==
    /\ pc = "proxy_wait"
    /\ \E o \in UpstreamOutcomes :
        /\ up' = o
        /\ LET rp == Received(o)
           IN  resp' = IF rp.kind = "raise" THEN ServerErrorResponse
                       ELSE IF ~(200 <= rp.status /\ rp.status <= 299)
                       THEN HTTPException(rp.status, Content(rp), "")
                       ELSE IF Content(rp) = JSON_BODY THEN JSONResponse(ParsedJson)
                       ELSE ServerErrorResponse
    /\ pc' = "done"
    /\ UNCHANGED <<req, calls, result, svc>>

-----------------------------------------------------------------------------
(* The application object: main.py *)

\* a URL path is the sequence of its segments; "/" is the empty sequence
IsPrefix(p, path) == Len(p) <= Len(path) /\ SubSeq(path, 1, Len(p)) = p

\* the path under which each router of the repository declares its routes:
\* the router's prefix, or the fixed head of its one route
RouterPrefix(router) ==
    CASE router = "relay" -> <<"relay">>
      [] router = "agency_relay" -> <<"api", "agency">>
      [] router = "mall_relay" -> <<"api", "mall">>
      [] router = "users" -> <<"users">>

\* main.py lines 26-27: the include_router calls, each a prefix and a router
IncludedRouters == { << <<>>, "users" >> }

\* the included routers whose routes lie on the path
app_match(path) ==
    {r \in IncludedRouters : IsPrefix(r[1] \o RouterPrefix(r[2]), path)}

\* A request to app.main.app that no included router matches (one that a
\* router matches is that router's handler): the root route of lines 29-31
\* answers GET /, anything else is starlette's 405 or 404.
AppRequest ==
    /\ pc = "idle"
    /\ \E m \in MethodInputs,
          path \in { <<>>,
                     <<"relay", "some", "path">>,
                     <<"api", "relay", "some", "path">>,
                     <<"api", "agency", "auth">>,
                     <<"api", "mall", "cancelDelivery">> } :
        /\ app_match(path) = {}
        /\ req' = [kind |-> "app", method |-> m, path |-> path]
        /\ resp' = IF path # <<>> THEN HTTPException(404, "Not Found", "")
                   ELSE IF m # "GET" THEN HTTPException(405, "Method Not Allowed", "")
                   ELSE JSONResponse(JObj([k \in {"message"} |-> JStr("<welcome>")]))
    /\ calls' = <<>>
    /\ pc' = "done"
    /\ UNCHANGED <<up, result, svc>>

-----------------------------------------------------------------------------
(* Specification *)

NoReq == [kind |-> "none"]
NoUp == [kind |-> "none"]
NoResult == [kind |-> "none"]
NoSvc == [constructed |-> FALSE, auth_token |-> None, agency_id |-> None,
          requests |-> 0, closed |-> 0, after_close |-> 0]

Init ==
    /\ pc = "idle"
    /\ req = NoReq
    /\ calls = <<>>
    /\ up = NoUp
    /\ resp = NoResp
    /\ result = NoResult
    /\ svc = NoSvc

\* the response has been sent; the next request starts from a clean slate
NextRequest ==
    /\ pc = "done"
    /\ pc' = "idle"
    /\ req' = NoReq
    /\ calls' = <<>>
    /\ up' = NoUp
    /\ resp' = NoResp
    /\ result' = NoResult
    /\ svc' = NoSvc

Next ==
    \/ RelayRequest
    \/ RelayComplete
    \/ SimpleRequest
    \/ SimpleComplete
    \/ TypedRequest
    \/ TypedComplete
    \/ ShippingRequest
    \/ ShippingComplete
    \/ ProxyRequest
    \/ ProxyComplete
    \/ AppRequest
    \/ NextRequest

Spec == Init /\ [][Next]_vars

-----------------------------------------------------------------------------
(* The generic relay alone, with every method the route accepts *)

\* every method with and without a query string, with and without a body;
\* explored header lines: none, or a client header next to Host
RelayRequestAnyMethod ==
    RelayRequestOf(RelayMethods \X {"", "param1=value1&param2=value2"} \X {"", "payload"},
                   { <<>>,
                     << <<"x-client-header", "ClientValue">>, <<"host", "relay.local">> >> })

RelayNext ==
    \/ RelayRequestAnyMethod
    \/ RelayComplete
    \/ NextRequest

RelaySpec == Init /\ [][RelayNext]_vars

-----------------------------------------------------------------------------
(* The clients used directly, as tests/today_pickup_client/test_client.py
   does: construct a client, await one method, close the client *)

MallClientOps ==
    { cancel_delivery, get_delivery_by_invoice, delivery_list_register,
      find_by_invoice_list, delivery_register, return_delivery,
      return_list_register, return_register }

AgencyClientOps == {check_auth, get_auth_token, update_delivery_ext_order_id}

\* explored construction arguments and method arguments
ClientTokenInputs == {"fake_token", "fake_mall_token"}

\* AgencyApiClient / MallApiClient: one method up to its awaited request
ClientMethodCall ==
    /\ pc = "idle"
    /\ \E group \in {"agency", "mall"}, t \in ClientTokenInputs,
          g \in AgencyIdInputs \ {None}, op \in MallClientOps \cup AgencyClientOps,
          p \in PathParamInputs \cup {""},
          j \in JsonInputs \cup {Goods1, JObj([f \in {"goodsList"} |-> JList(<<>>)])} :
        /\ op \in (IF group = "mall" THEN MallClientOps ELSE AgencyClientOps)
        /\ p = "" <=> ~op.param
        /\ IF op.hasBody THEN Validates(op.model, j) ELSE j = JNone
        /\ LET c == IF group = "mall" THEN MallApiClient(t) ELSE AgencyApiClient(t, g)
           IN  /\ req' = [kind |-> "client", group |-> group, op |-> op,
                          auth_token |-> c.auth_token, agency_id |-> c.agency_id,
                          param |-> p, json |-> j, headers |-> EmptyDict]
               /\ svc' = request_issued(c)
               /\ calls' = <<client_call(c, op, p, j)>>
    /\ pc' = "client_wait"
    /\ UNCHANGED <<up, resp, result>>

\* MallApiClient.possible_delivery up to its awaited request
ClientPossibleDelivery ==
    /\ pc = "idle"
    /\ \E t \in ClientTokenInputs, d \in {None, "True", "False"} :
        LET c == MallApiClient(t)
        IN  /\ req' = [kind |-> "client", group |-> "mall", op |-> possible_delivery,
                       auth_token |-> c.auth_token, agency_id |-> c.agency_id,
                       param |-> "", json |-> JNone, headers |-> EmptyDict]
            /\ svc' = request_issued(c)
            /\ calls' = <<possible_delivery_call(c, "Seoul", "04524", d)>>
    /\ pc' = "client_wait"
    /\ UNCHANGED <<up, resp, result>>

\* TodayPickupClientBase._request called bare: a token or tenant id can be
\* absent or empty, and the caller can pass headers of its own
ClientRequest ==
    /\ pc = "idle"
    /\ \E t \in {None, "", "fake_token"}, g \in {None, "", "agency001"},
          h \in { EmptyDict,
                  [n \in {"X-Custom"} |-> "v"],
                  [n \in {"Authorization"} |-> "other_token"],
                  [n \in {"agencyId", "X-Custom"} |->
                      IF n = "agencyId" THEN "other_agency" ELSE "v"],
                  [n \in {"authorization"} |-> "lower_token"] } :
        LET c == TodayPickupClientBase(t, g)
        IN  /\ req' = [kind |-> "request", method |-> "POST", endpoint |-> "/agency/auth",
                       auth_token |-> t, agency_id |-> g, headers |-> h]
            /\ svc' = request_issued(c)
            /\ calls' = <<request_call(c, "POST", "/agency/auth", h, JNone, EmptyDict)>>
    /\ pc' = "client_wait"
    /\ UNCHANGED <<up, resp, result>>

\* _request from the upstream outcome to its return or raise
ClientComplete ==
    /\ pc = "client_wait"
    /\ \E o \in UpstreamOutcomes :
        /\ up' = o
        /\ result' = request_result(Received(o))
    /\ pc' = "client_done"
    /\ UNCHANGED <<req, calls, resp, svc>>

\* the caller closes the client
ClientClose ==
    /\ pc = "client_done"
    /\ svc' = close(svc)
    /\ pc' = "done"
    /\ UNCHANGED <<req, calls, up, resp, result>>

ClientNext ==
    \/ ClientMethodCall
    \/ ClientPossibleDelivery
    \/ ClientRequest
    \/ ClientComplete
    \/ ClientClose
    \/ NextRequest

ClientSpec == Init /\ [][ClientNext]_vars

-----------------------------------------------------------------------------
(* Concurrent requests: the event loop interleaves the handlers of several
   requests at their await points.  Every variable holds one value per
   request; svc holds the objects constructed so far and the object each
   handler holds; calls holds the outbound calls in the order issued. *)

Requests == {1, 2}

\* the credentials of each concurrent request: a token and a tenant id of its
\* own, and the Authorization header it sends to a typed mall route
Credentials(i) ==
    IF i = 1
    THEN [token |-> "fake_token", agency_id |-> "agency001",
          bearer |-> "Bearer fake_mall_token"]
    ELSE [token |-> "other_token", agency_id |-> "agency002",
          bearer |-> "Bearer other_mall_token"]

\* the requests that request i can be: any typed route, or a generic relay
\* request, with the credentials of request i
ConcRequests(i) ==
    { r \in { [kind |-> "typed", ep |-> ep,
               authorization |-> IF ep.group = "agency" THEN Credentials(i).token
                                 ELSE Credentials(i).bearer,
               agencyId |-> IF ep.group = "agency" THEN Credentials(i).agency_id
                            ELSE None,
               param |-> IF ep.op.param THEN "INV001" ELSE "",
               json |-> j] :
                 ep \in TypedEndpoints,
                 j \in {JNone, JObj([f \in {"invoiceNumber"} |-> JStr("INV001")])} } :
        RoutedTyped(r) }
    \cup
    { [kind |-> "relay", method |-> "GET", path |-> "some/path", query |-> "",
       headers |-> << <<"authorization", Credentials(i).token>>,
                      <<"agencyid", Credentials(i).agency_id>> >>,
       body |-> "", body_read |-> "ok"] }

\* the upstream outcomes explored: every status and body, no extra headers
ConcOutcomes ==
    {o \in UpstreamOutcomes :
        o.kind = "response" => o.headers = <<Framing("length", o.wire)>>}

\* variant: one shared instance serves every request
construct_singleton(heap, c, i) ==
    [objects |-> <<c>>, of |-> [heap.of EXCEPT ![i] = 1]]

\* a constructor call in the handler of request i makes a new object, which
\* that handler holds
construct(heap, c, i) ==
    [objects |-> Append(heap.objects, c),
     of |-> [heap.of EXCEPT ![i] = Len(heap.objects) + 1]]

\* relay_controller.py lines 49-70: the local response for an outcome
relay_response(rp) ==
    IF rp.kind = "response"
    THEN StarletteResponse(Content(rp), rp.status, DictItems(response_headers(rp)), None)
    ELSE relay_except(rp.exc)

\* Request i up to the first point where the event loop can run another
\* handler: for a typed route the dependencies (the service is constructed)
\* and the body validation, for the relay lines 24-39 (its httpx.AsyncClient
\* is an object without credentials)
ConcDepends(i) ==
    /\ pc[i] = "idle"
    /\ \E r \in ConcRequests(i) :
        /\ req' = [req EXCEPT ![i] = r]
        /\ IF r.kind = "relay"
           THEN /\ svc' = construct(svc, TodayPickupClientBase(None, None), i)
                /\ resp' = resp
                /\ pc' = [pc EXCEPT ![i] = "ready"]
           ELSE LET service == IF r.ep.group = "agency"
                               THEN get_agency_service(r.authorization, r.agencyId)
                               ELSE get_mall_service(r.authorization)
                IN  IF ~service.ok
                    THEN /\ svc' = svc
                         /\ resp' = [resp EXCEPT ![i] = service.error]
                         /\ pc' = [pc EXCEPT ![i] = "done"]
                    ELSE /\ svc' = construct(svc, service.value, i)
                         /\ IF r.ep.op.hasBody /\ ~Validates(r.ep.op.model, r.json)
                            THEN /\ resp' = [resp EXCEPT ![i] = RequestValidationError("body")]
                                 /\ pc' = [pc EXCEPT ![i] = "done"]
                            ELSE /\ resp' = resp
                                 /\ pc' = [pc EXCEPT ![i] = "ready"]
    /\ UNCHANGED <<calls, up, result>>

\* the handler of request i issues its outbound call on the object it holds
ConcCall(i) ==
    /\ pc[i] = "ready"
    /\ LET c == svc.objects[svc.of[i]]
           r == req[i]
       IN  /\ calls' = Append(calls,
                  [by |-> i,
                   call |-> IF r.kind = "relay"
                            THEN Call(r.method, target_url(r.path, r.query),
                                      forward_headers(r.headers),
                                      outbound_content(r.body), JNone, EmptyDict)
                            ELSE client_call(c, r.ep.op, r.param, r.json)])
           /\ svc' = [svc EXCEPT !.objects[svc.of[i]] = request_issued(@)]
    /\ pc' = [pc EXCEPT ![i] = "wait"]
    /\ UNCHANGED <<req, up, resp, result>>

\* the outbound call of request i ends: the handler answers and closes the
\* object it holds ("finally" of a typed handler, the end of "async with")
ConcComplete(i) ==
    /\ pc[i] = "wait"
    /\ \E o \in ConcOutcomes :
        /\ up' = [up EXCEPT ![i] = o]
        /\ IF req[i].kind = "relay"
           THEN /\ result' = result
                /\ resp' = [resp EXCEPT ![i] = relay_response(Received(o))]
           ELSE /\ result' = [result EXCEPT ![i] = request_result(Received(o))]
                /\ resp' = [resp EXCEPT
                              ![i] = typed_handler(req[i].ep, request_result(Received(o)))]
    /\ svc' = [svc EXCEPT !.objects[svc.of[i]] = close(@)]
    /\ pc' = [pc EXCEPT ![i] = "done"]
    /\ UNCHANGED <<req, calls>>

ConcInit ==
    /\ pc = [i \in Requests |-> "idle"]
    /\ req = [i \in Requests |-> NoReq]
    /\ calls = <<>>
    /\ up = [i \in Requests |-> NoUp]
    /\ resp = [i \in Requests |-> NoResp]
    /\ result = [i \in Requests |-> NoResult]
    /\ svc = [objects |-> <<>>, of |-> [i \in Requests |-> 0]]

ConcNext ==
    \/ \E i \in Requests : ConcDepends(i)
    \/ \E i \in Requests : ConcCall(i)
    \/ \E i \in Requests : ConcComplete(i)

ConcSpec == ConcInit /\ [][ConcNext]_vars

-----------------------------------------------------------------------------
(* Relay requests one after another against an upstream that answers every
   call with the same outcome.  req, calls and resp hold the requests, the
   outbound calls and the local responses so far, oldest first. *)

MaxSeqRequests == 3

\* variant: the header dict of the previous call is used again
fresh_headers_kept(history) ==
    IF history = <<>> THEN EmptyDict ELSE history[Len(history)].headers

\* relay_controller.py line 31, "forward_headers = {}" (client.py line 73,
\* "request_headers = {}"): every call of the handler starts from a new,
\* empty dict, whatever was sent before
fresh_headers(history) == EmptyDict

SeqInit ==
    /\ pc = "idle"
    /\ req = <<>>
    /\ calls = <<>>
    /\ up \in ConcOutcomes
    /\ resp = <<>>
    /\ result = NoResult
    /\ svc = NoSvc

\* relay_request up to its outbound call; lines 32-34 write the forwarded
\* header lines into the dict of line 31
SeqRelayRequest ==
    /\ pc = "idle"
    /\ Len(req) < MaxSeqRequests
    /\ \E line \in RequestLineInputs, p \in PathInputs,
          hs \in { <<>>,
                   << <<"x-client-header", "ClientValue">> >>,
                   << <<"authorization", "fake_token">>, <<"host", "relay.local">> >> } :
        LET d == fresh_headers(calls)
            f == forward_headers(hs)
        IN  /\ req' = Append(req, [kind |-> "relay", method |-> line[1], path |-> p,
                                   query |-> line[2], headers |-> hs, body |-> line[3],
                                   body_read |-> "ok"])
            /\ calls' = Append(calls,
                   Call(line[1], target_url(p, line[2]),
                        [k \in DOMAIN d \cup DOMAIN f |->
                            IF k \in DOMAIN f THEN f[k] ELSE d[k]],
                        outbound_content(line[3]), JNone, EmptyDict))
    /\ pc' = "relay_wait"
    /\ UNCHANGED <<up, resp, result, svc>>

\* ... and from the upstream's outcome to the local response
SeqRelayComplete ==
    /\ pc = "relay_wait"
    /\ resp' = Append(resp, relay_response(Received(up)))
    /\ pc' = "idle"
    /\ UNCHANGED <<req, calls, up, result, svc>>

SeqNext ==
    \/ SeqRelayRequest
    \/ SeqRelayComplete

SeqSpec == SeqInit /\ [][SeqNext]_vars

-----------------------------------------------------------------------------
(* The user store: controllers/user_controller.py over services/user_service.py
   and repositories/user_repository.py.  The handlers call the synchronous
   service without awaiting anything, so each request is one step.  svc holds
   the committed rows of the users table: records of id, email, username and
   hashed_password. *)

MaxUserId == 3

\* explored payloads of POST /users
UserDataInputs ==
    [email : {"a@example.com", "b@example.com"}, username : {"alice", "bob"},
     password : {"pw1", "pw2"}]

\* UserService._hash_password: the hex digest of the password
hash_password(password) == "sha256(" \o password \o ")"

\* variant: only the email column is unique
violates_unique_email_only(rows) ==
    \E u, v \in rows : u.id # v.id /\ u.email = v.email

\* the unique constraints of the users table, "email and username are
\* unique": whether Session.commit() of these rows raises IntegrityError
violates_unique(rows) ==
    \E u, v \in rows : u.id # v.id /\ (u.email = v.email \/ u.username = v.username)

\* variant: no except clause, the IntegrityError leaves create() as it is
create_failed_uncaught == ServerErrorResponse

\* UserRepository.create lines 22-24 and UserController.create_user lines
\* 29-33: IntegrityError becomes ValueError becomes 400
create_failed ==
    HTTPException(400, "<already existing email or username>", "")

UserInit ==
    /\ pc = "idle"
    /\ req = NoReq
    /\ calls = <<>>
    /\ up = NoUp
    /\ resp = NoResp
    /\ result = NoResult
    /\ svc = {}

\* POST /users: the new row gets a primary key no stored row has
CreateUser ==
    /\ \E d \in UserDataInputs, id \in 1..MaxUserId :
        /\ \A u \in svc : u.id # id
        /\ req' = [kind |-> "create_user", email |-> d.email, username |-> d.username,
                   password |-> d.password]
        /\ LET user == [id |-> id, email |-> d.email, username |-> d.username,
                        hashed_password |-> hash_password(d.password)]
           IN  IF violates_unique(svc \cup {user})
               THEN /\ svc' = svc
                    /\ resp' = create_failed
               ELSE /\ svc' = svc \cup {user}
                    /\ resp' = JSONResponse([t |-> "UserResponse", v |-> id])
    /\ pc' = "done"
    /\ UNCHANGED <<calls, up, result>>

\* PUT /users/{user_id}: every field that is given is written to the row;
\* update() has no except clause, so an IntegrityError of its commit leaves
\* the handler uncaught and nothing is committed
UpdateUser ==
    /\ \E id \in 1..MaxUserId,
          e \in {d.email : d \in UserDataInputs} \cup {None},
          n \in {d.username : d \in UserDataInputs} \cup {None},
          p \in {d.password : d \in UserDataInputs} \cup {None} :
        /\ req' = [kind |-> "update_user", user_id |-> id, email |-> e,
                   username |-> n, password |-> p]
        /\ IF \A u \in svc : u.id # id
           THEN /\ svc' = svc
                /\ resp' = HTTPException(404, "<user not found>", "")
           ELSE LET user == CHOOSE u \in svc : u.id = id
                    new == [id |-> id,
                            email |-> IF e # None THEN e ELSE user.email,
                            username |-> IF n # None THEN n ELSE user.username,
                            hashed_password |-> IF p # None THEN hash_password(p)
                                                ELSE user.hashed_password]
                IN  IF violates_unique((svc \ {user}) \cup {new})
                    THEN /\ svc' = svc
                         /\ resp' = ServerErrorResponse
                    ELSE /\ svc' = (svc \ {user}) \cup {new}
                         /\ resp' = JSONResponse([t |-> "UserResponse", v |-> id])
    /\ pc' = "done"
    /\ UNCHANGED <<calls, up, result>>

\* DELETE /users/{user_id}
DeleteUser ==
    /\ \E id \in 1..MaxUserId :
        /\ req' = [kind |-> "delete_user", user_id |-> id]
        /\ IF \A u \in svc : u.id # id
           THEN /\ svc' = svc
                /\ resp' = HTTPException(404, "<user not found>", "")
           ELSE /\ svc' = {u \in svc : u.id # id}
                /\ resp' = StarletteResponse("", 204, {}, None)
    /\ pc' = "done"
    /\ UNCHANGED <<calls, up, result>>

UserNext ==
    \/ CreateUser
    \/ UpdateUser
    \/ DeleteUser

UserSpec == UserInit /\ [][UserNext]_vars

-----------------------------------------------------------------------------
(* Properties *)

\* the outbound call really returned a response to the handler
GotResponse == up.kind = "response" /\ Received(up).kind = "response"

\* the header lines of the upstream response as name/value pairs, names
\* compared case-insensitively
UpstreamHeaderPairs == {<<lower(up.headers[i][1]), up.headers[i][2]>> : i \in 1..Len(up.headers)}

TakesBody(r) ==
    \/ r.kind = "simple" /\ r.ep.body \in {"dto", "raw"}
    \/ r.kind = "typed" /\ r.ep.op.hasBody

\* C1: for every typed endpoint that takes a request body (simple relay
\* controllers and typed client/service pair), the JSON body sent upstream
\* equals the JSON body the caller sent.
C1_BodySentUnchanged ==
    (TakesBody(req) /\ Len(calls) > 0) => calls[1].json = req.json

\* C2: for every generic relay request whose outbound call returns a
\* response, the local response has the upstream's status code, body bytes
\* and set of header name/value pairs.
C2_RelayRoundTrip ==
    (req.kind = "relay" /\ pc = "done" /\ GotResponse) =>
        /\ resp.status = up.status
        /\ resp.body = up.wire
        /\ resp.headers = UpstreamHeaderPairs

\* C3: for every generic relay request, no hop-by-hop header (matched
\* case-insensitively) is passed to the outbound call, and every other
\* inbound header is passed with its value unchanged.
C3_HopByHopFiltered ==
    (req.kind = "relay" /\ Len(calls) > 0) =>
        /\ \A n \in DOMAIN calls[1].headers : lower(n) \notin HOP_BY_HOP_HEADERS
        /\ \A i \in 1..Len(req.headers) :
            lower(req.headers[i][1]) \notin HOP_BY_HOP_HEADERS =>
                /\ req.headers[i][1] \in DOMAIN calls[1].headers
                /\ calls[1].headers[req.headers[i][1]] = req.headers[i][2]

\* C4: for every typed agency endpoint (simple relay controller and typed
\* client/service controller), a request with an Authorization header and
\* without an agencyId header is answered 400 and no outbound call is made.
C4_MissingAgencyId400 ==
    (/\ req.kind \in {"simple", "typed"}
     /\ req.ep.group = "agency"
     /\ req.authorization # None
     /\ req.agencyId = None) =>
        (pc = "done" /\ resp.status = 400 /\ calls = <<>>)

\* C5: for every typed endpoint (agency and mall, simple relay controllers
\* and typed client/service controllers), a request without an Authorization
\* header is answered 401 and no outbound call is made.
C5_MissingAuthorization401 ==
    (req.kind \in {"simple", "typed"} /\ req.authorization = None) =>
        (pc = "done" /\ resp.status = 401 /\ calls = <<>>)

\* C6: every service/client instance constructed for a request or by
\* ShippingService has had close() invoked exactly once when the request or
\* call has completed, on every exit path.
C6_ClosedExactlyOnce ==
    (pc = "done" /\ svc.constructed) => svc.closed = 1

\* C7: no operation is issued on a client or service instance after close()
\* has been called on it, and nothing happens to an instance after teardown:
\* once closed, an instance stays as it is until it is dropped.
C7_NoUseAfterClose ==
    /\ svc.after_close = 0
    /\ svc.closed > 0 => (pc = "done" /\ svc.closed = 1)

C7_Witness ==
    /\ pc = "done"
    /\ req.kind = "typed"
    /\ req.ep.group = "mall"
    /\ svc.constructed
    /\ svc.requests = 1
    /\ svc.closed = 1

\* C8: for _request, an upstream 204 returns None without raising, and any
\* upstream status >= 400 raises an error that carries exactly that status.
C8_StatusErrorCarriesStatus ==
    (req.kind \in {"typed", "shipping"} /\ pc = "done" /\ GotResponse) =>
        /\ up.status = 204 => result = Returned(JNull)
        /\ up.status >= 400 => (result.kind = "raise" /\ result.status = up.status)

\* check_auth with an upstream 401 raised an error carrying 401
C8_Witness ==
    /\ pc = "done"
    /\ req.kind = "shipping"
    /\ req.op.name = "check_auth"
    /\ GotResponse
    /\ up.status = 401
    /\ result.kind = "raise"
    /\ result.status = 401

\* C9: for _request, every upstream status that is neither 4xx/5xx nor 204
\* (1xx, other 2xx, 3xx) returns the parsed JSON body and does not raise a
\* status error.
C9_OtherStatusReturnsJson ==
    (/\ req.kind \in {"typed", "shipping"}
     /\ pc = "done"
     /\ GotResponse
     /\ up.status < 400
     /\ up.status # 204) =>
        /\ result.exc # "httpx.HTTPStatusError"
        /\ Content(up) = JSON_BODY => result = Returned(ParsedJson)

\* C10: for every generic relay request whose outbound call fails with a
\* timeout, the caller receives 504 with a detail containing "Gateway
\* timeout" (never 502 or 500).
C10_TimeoutIs504 ==
    (req.kind = "relay" /\ pc = "done" /\ up = Failure(TimeoutException)) =>
        /\ resp.kind = "error"
        /\ resp.status = 504
        /\ resp.detail[1] = "Gateway timeout: "

C10_Witness ==
    /\ req.kind = "relay"
    /\ pc = "done"
    /\ up = Failure(TimeoutException)
    /\ resp.status = 504

\* C11: for every generic relay request whose outbound call fails with a
\* transport-level error that is not a timeout, the caller receives 502 with
\* a detail containing "Bad gateway".
C11_TransportErrorIs502 ==
    (/\ req.kind = "relay"
     /\ pc = "done"
     /\ Received(up).kind = "raise"
     /\ Received(up).exc \in {ConnectError, DecodingError}) =>
        /\ resp.kind = "error"
        /\ resp.status = 502
        /\ resp.detail[1] = "Bad gateway: Error connecting to the upstream server. "

C11_Witness ==
    /\ req.kind = "relay"
    /\ pc = "done"
    /\ up = Failure(ConnectError)
    /\ resp.status = 502

\* a failure of the relay handler that is not a transport error: raised
\* before the dispatch (reading the inbound request) or by the dispatch
RelayUnexpectedFailure ==
    \/ req.body_read # "ok"
    \/ Received(up).kind = "raise" /\ ~IsRequestError(Received(up).exc)

\* C12: for every generic relay request, any unexpected failure that is not a
\* transport error, raised while copying headers, while reading the inbound
\* body or during the outbound dispatch, yields 500 with a body containing
\* "Internal server error".
C12_UnexpectedIs500 ==
    (req.kind = "relay" /\ pc = "done" /\ RelayUnexpectedFailure) =>
        /\ resp.kind = "error"
        /\ resp.status = 500
        /\ resp.detail[1] = "Internal server error: "

\* the content-type header values of the local response
RespContentTypes == {h[2] : h \in {x \in resp.headers : x[1] = "content-type"}}

\* C13: for every endpoint of the simple agency and mall relay controllers,
\* whenever the outbound call returns a response (upstream 4xx/5xx included),
\* the caller receives the upstream status code, the upstream body and the
\* upstream content type unchanged.
C13_SimpleRoundTrip ==
    (req.kind = "simple" /\ pc = "done" /\ GotResponse) =>
        /\ resp.kind = "response"
        /\ resp.status = up.status
        /\ resp.body = Content(up)
        /\ RespContentTypes =
              (IF HeadersGet(up.headers, "content-type") = None THEN {}
               ELSE {HeadersGet(up.headers, "content-type")})

\* C14: for every endpoint of the simple agency and mall relay controllers, a
\* transport failure of the outbound call (timeout included) yields 500 with
\* a detail containing "Error connecting to external API", and no other
\* status.
C14_SimpleTransportIs500 ==
    (/\ req.kind = "simple"
     /\ pc = "done"
     /\ Received(up).kind = "raise"
     /\ IsRequestError(Received(up).exc)) =>
        /\ resp.kind = "error"
        /\ resp.status = 500
        /\ resp.detail[1] = "Error connecting to external API: "

C14_Witness ==
    /\ req.kind = "simple"
    /\ pc = "done"
    /\ up = Failure(TimeoutException)
    /\ resp.status = 500
    /\ resp.detail = <<"Error connecting to external API: ", TimeoutException>>

\* C15 as claimed: for every endpoint of the typed client/service controllers,
\* an upstream response with a 4xx/5xx status is answered 500 with a detail
\* that wraps the client error, and the upstream status code is never the
\* status returned to the caller.
C15_UpstreamStatusNeverReturned ==
    (req.kind = "typed" /\ pc = "done" /\ GotResponse /\ up.status >= 400) =>
        /\ resp.kind = "error"
        /\ resp.status = 500
        /\ resp.detail = <<"An unexpected error occurred: ", "httpx.HTTPStatusError">>
        /\ resp.status # up.status

\* C15 amended: for every endpoint of the typed client/service controllers,
\* an upstream response with a 4xx/5xx status is answered 500 with a detail
\* that wraps the client error, whatever the upstream status was (so the
\* caller sees the upstream status only when that status is itself 500).
C15_UpstreamErrorIs500 ==
    (req.kind = "typed" /\ pc = "done" /\ GotResponse /\ up.status >= 400) =>
        /\ resp.kind = "error"
        /\ resp.status = 500
        /\ resp.detail = <<"An unexpected error occurred: ", "httpx.HTTPStatusError">>

C15_Witness ==
    /\ req.kind = "typed"
    /\ pc = "done"
    /\ GotResponse
    /\ up.status = 401
    /\ resp.status = 500

C17_MallCallsCarryToken ==
    (req.kind = "client" /\ req.group = "mall") =>
        /\ Len(calls) = 1
        /\ calls[1].headers = [n \in {"Authorization"} |-> req.auth_token]
        /\ (req.op.name = "get_delivery_by_invoice" /\ req.param = "INV001") =>
              /\ calls[1].method = "GET"
              /\ calls[1].url = "https://admin.todaypickup.com/api/mall/delivery/INV001"

C17_Witness ==
    /\ req.kind = "client"
    /\ req.group = "mall"
    /\ req.op.name = "get_delivery_by_invoice"
    /\ req.param = "INV001"
    /\ req.auth_token = "fake_mall_token"
    /\ pc = "done"
    /\ Len(calls) = 1
    /\ calls[1].method = "GET"
    /\ result.kind = "return"

\* C18: for every generic relay request (one that has been read) with
\* remaining path p, query string q and method m, exactly one outbound call is
\* made, with method m and URL equal to the upstream base followed by p,
\* followed by "?" and q verbatim when q is non-empty and by nothing when q
\* is empty.
C18_OneCallSameMethodAndUrl ==
    (req.kind = "relay" /\ req.body_read = "ok") =>
        /\ Len(calls) = 1
        /\ calls[1].method = req.method
        /\ calls[1].url =
              "https://admin.todaypickup.com/v2/api-docs/" \o req.path
                  \o (IF req.query = "" THEN "" ELSE "?" \o req.query)

C18_Witness ==
    /\ req.kind = "relay"
    /\ req.method = "DELETE"
    /\ req.query = "param1=value1&param2=value2"
    /\ pc = "done"
    /\ GotResponse
    /\ Len(calls) = 1
    /\ calls[1].method = "DELETE"
    /\ calls[1].url =
          "https://admin.todaypickup.com/v2/api-docs/some/path?param1=value1&param2=value2"

\* C19: the application object app.main.app dispatches requests for
\* /api/relay/{path}, /api/agency/... and /api/mall/... to the generic relay,
\* agency relay and mall relay handlers, so that such a request results in
\* the corresponding outbound call.
C19_AppDispatchesRelays ==
    (req.kind = "app" /\ pc = "done" /\ IsPrefix(<<"api">>, req.path)) =>
        /\ resp.status # 404
        /\ Len(calls) = 1

\* C20: for every relay or typed endpoint and every outcome of the outbound
\* call (response, timeout, transport error, unexpected exception), at most
\* one outbound call is issued per incoming request: a failed outbound call is
\* never retried, and the failure is reported on that same request.
C20_NoRetry ==
    /\ Len(calls) <= 1
    /\ (/\ req.kind \in {"relay", "simple", "typed", "proxy"}
        /\ Received(up).kind = "raise") =>
            /\ pc = "done"
            /\ Len(calls) = 1
            /\ resp.kind \in {"error", "response"}
            /\ resp.status \in {500, 502, 504}

C20_Witness ==
    /\ req.kind = "relay"
    /\ pc = "done"
    /\ up = Failure(UnexpectedError)
    /\ Len(calls) = 1
    /\ resp.status = 500

\* C21: for any interleaving of concurrent requests carrying different
\* credentials, each request uses its own client instance, each outbound call
\* carries exactly the credentials (token and tenant id) of the request that
\* triggered it, and closing one request's client does not affect another
\* in-flight request.
C21_RequestsIsolated ==
    /\ \A i, j \in Requests :
        (i # j /\ svc.of[i] # 0 /\ svc.of[j] # 0) => svc.of[i] # svc.of[j]
    /\ \A k \in 1..Len(calls) :
        LET i == calls[k].by
            h == calls[k].call.headers
        IN  CASE req[i].kind = "relay" ->
                    /\ DOMAIN h = {"authorization", "agencyid"}
                    /\ h["authorization"] = (IF i = 1 THEN "fake_token" ELSE "other_token")
                    /\ h["agencyid"] = (IF i = 1 THEN "agency001" ELSE "agency002")
              [] req[i].kind = "typed" /\ req[i].ep.group = "agency" ->
                    /\ DOMAIN h = {"Authorization", "agencyId"}
                    /\ h["Authorization"] = (IF i = 1 THEN "fake_token" ELSE "other_token")
                    /\ h["agencyId"] = (IF i = 1 THEN "agency001" ELSE "agency002")
              [] OTHER ->
                    /\ DOMAIN h = {"Authorization"}
                    /\ h["Authorization"] =
                            (IF i = 1 THEN "fake_mall_token" ELSE "other_mall_token")
    /\ \A i \in Requests :
        pc[i] \in {"ready", "wait"} => svc.objects[svc.of[i]].closed = 0
    /\ \A n \in 1..Len(svc.objects) :
        svc.objects[n].after_close = 0 /\ svc.objects[n].closed <= 1

\* two typed requests in flight at once, the later one's call issued first,
\* and one of them answered and its client closed while the other waits
C21_Witness ==
    /\ pc[1] = "done" /\ pc[2] = "wait"
    /\ req[1].kind = "typed" /\ req[2].kind = "typed"
    /\ req[1].ep.group = "agency" /\ req[2].ep.group = "agency"
    /\ Len(calls) = 2 /\ calls[1].by = 2
    /\ svc.objects[svc.of[1]].closed = 1
    /\ svc.objects[svc.of[2]].closed = 0

\* C22: issuing the same relay request twice against an upstream that returns
\* a fixed response yields two identical local responses and two identical
\* outbound requests, and the outbound headers of a request never contain a
\* value taken from an earlier, unrelated request: every outbound header is
\* a header line of the request that triggered the call.
C22_RepeatableNoLeak ==
    /\ \A u, v \in 1..Len(calls) :
        req[u] = req[v] =>
            /\ calls[u] = calls[v]
            /\ (u <= Len(resp) /\ v <= Len(resp)) => resp[u] = resp[v]
    /\ \A u \in 1..Len(calls) :
        \A n \in DOMAIN calls[u].headers :
            \E k \in 1..Len(req[u].headers) :
                req[u].headers[k] = <<n, calls[u].headers[n]>>

\* a request with a header of its own, then a different request sent twice,
\* all three answered by the upstream's response
C22_Witness ==
    /\ Len(resp) = 3
    /\ up.kind = "response"
    /\ req[1].headers # <<>>
    /\ req[2] # req[1]
    /\ req[2].headers = <<>>
    /\ req[3] = req[2]
    /\ resp[3] = resp[2]

\* C23: for every mall endpoint (simple mall relay controller and typed
\* client/service mall controller), the value of the outbound Authorization
\* header is equal, character for character, to the value of the inbound
\* Authorization header.
C23_MallAuthorizationVerbatim ==
    (req.kind \in {"simple", "typed"} /\ req.ep.group = "mall" /\ Len(calls) > 0) =>
        /\ "Authorization" \in DOMAIN calls[1].headers
        /\ calls[1].headers["Authorization"] = req.authorization

\* C24: when the upstream response to a generic relay request contains a
\* hop-by-hop Connection header, the response returned to the caller does not
\* contain a Connection header, while the other upstream response headers are
\* relayed.
C24_ConnectionNotRelayed ==
    (req.kind = "relay" /\ pc = "done" /\ GotResponse
        /\ "connection" \in {p[1] : p \in UpstreamHeaderPairs}) =>
        /\ "connection" \notin {h[1] : h \in resp.headers}
        /\ \A p \in UpstreamHeaderPairs :
            p[1] \notin {"connection", "content-length", "transfer-encoding"} =>
                p[1] \in {h[1] : h \in resp.headers}

\* C27: for every generic relay request, the outbound call carries the
\* inbound body bytes unchanged when the inbound body is non-empty, and
\* carries no body at all (content is None) when the inbound body is empty,
\* for every method.
C27_BodyOrNone ==
    (req.kind = "relay" /\ Len(calls) > 0) =>
        /\ req.body # "" => calls[1].content = req.body
        /\ req.body = "" => calls[1].content = None

\* a HEAD request without a body whose outbound call has no content
C27_Witness ==
    /\ req.kind = "relay" /\ pc = "relay_wait"
    /\ req.method = "HEAD" /\ req.body = ""
    /\ Len(calls) = 1 /\ calls[1].content = None

\* C28: on the typed mall endpoint GET /todaypickup/mall/delivery/{invoice_number},
\* an upstream 204 response (the client returns None) is answered with status
\* 404 "Delivery not found", not with 500 and not with an empty success, and
\* the service is still closed once.
C28_NoContentIs404 ==
    (req.kind = "typed" /\ req.ep.name = "get_delivery_by_invoice" /\ pc = "done"
        /\ up.kind = "response" /\ up.status = 204) =>
        /\ resp.kind = "error"
        /\ resp.status = 404
        /\ resp.detail = <<"Delivery not found", "">>
        /\ svc.closed = 1
        /\ svc.after_close = 0

C28_Witness ==
    /\ req.kind = "typed" /\ req.ep.name = "get_delivery_by_invoice" /\ pc = "done"
    /\ up.kind = "response" /\ up.status = 204
    /\ result.kind = "return" /\ result.value = JNull
    /\ resp.status = 404

\* C29: for every typed client/service mall endpoint, an Authorization header
\* that is present but is not exactly two whitespace-separated parts whose
\* first part is "bearer" (case-insensitive) is rejected with status 401
\* before any service or client instance is constructed and before any
\* outbound call.
C29_MalformedBearerIs401 ==
    (req.kind = "typed" /\ req.ep.group = "mall"
        /\ req.authorization \in {"fake_token", "Basic abc", "Bearer a b"}) =>
        /\ pc = "done"
        /\ resp.kind = "error"
        /\ resp.status = 401
        /\ ~svc.constructed
        /\ calls = <<>>

\* a header of three parts, and one of two parts with another scheme
C29_Witness ==
    /\ req.kind = "typed" /\ req.ep.group = "mall" /\ pc = "done"
    /\ req.authorization = "Basic abc"
    /\ resp.status = 401

\* C30: ShippingService.get_shipment_status and check_agency_auth_status
\* never raise to their caller: on any failure of the underlying call they
\* return an error dictionary with keys "error" and "details", and on both
\* the success and the failure path the service they constructed is closed
\* exactly once, after the operation call.
C30_ShippingReturnsAndCloses ==
    /\ (req.kind = "shipping" /\ pc = "shipping_wait") =>
            svc.constructed /\ svc.requests = 1 /\ svc.closed = 0
    /\ (req.kind = "shipping" /\ pc = "done") =>
        /\ resp.kind = "return"
        /\ result.kind = "raise" =>
                resp.body.t = "obj" /\ DOMAIN resp.body.v = {"error", "details"}
        /\ result.kind = "return" => resp.body = result.value
        /\ svc.requests = 1
        /\ svc.closed = 1
        /\ svc.after_close = 0

\* a failed call answered with the error dictionary, the service closed
C30_Witness ==
    /\ req.kind = "shipping" /\ pc = "done"
    /\ result.kind = "raise" /\ result.exc = "httpx.HTTPStatusError"
    /\ resp.kind = "return" /\ DOMAIN resp.body.v = {"error", "details"}
    /\ svc.closed = 1

\* C25: after any sequence of create, update and delete operations on the
\* user store, no two stored users have the same email and no two stored
\* users have the same username.
C25_EmailAndUsernameUnique ==
    \A u, v \in svc :
        u.id # v.id => u.email # v.email /\ u.username # v.username

\* two users are stored and an update that would have given one of them the
\* other's username has just failed
C25_Witness ==
    /\ Cardinality(svc) = 2
    /\ req.kind = "update_user"
    /\ req.username # None
    /\ \E u \in svc : u.id # req.user_id /\ u.username = req.username
    /\ resp.status = 500

\* C26: creating a user whose email or username already exists fails with a
\* business error (ValueError, answered as HTTP 400), and the set of stored
\* users after the failed create is identical to the set before it.
C26_DuplicateCreateIs400 ==
    [][ (req'.kind = "create_user"
         /\ \E u \in svc : u.email = req'.email \/ u.username = req'.username)
        => (resp'.kind = "error" /\ resp'.status = 400 /\ svc' = svc) ]_vars

\* a create with the username of a stored user has been answered with 400
C26_Witness ==
    /\ req.kind = "create_user"
    /\ \E u \in svc : u.username = req.username /\ u.email # req.email
    /\ resp.kind = "error"
    /\ resp.status = 400

====
